---------------------------- MODULE Spec2Model ----------------------------
(***************************************************************************)
(* Model of the retrieval-and-answer pipeline of the knowledge assistant:  *)
(*   src/core/retrieval.py   MultimodalRetriever                           *)
(*   src/core/chroma.py      ChromaClient.query                            *)
(*   src/api/query.py        query_documents                               *)
(*                                                                         *)
(* A text is a sequence of atoms.  An atom is a character (" ", "\n", "a", *)
(* "A", ...) or a literal phrase of the source kept as one unit (an error  *)
(* detail, a marker such as "[Image:").  strip, lower, split and join work *)
(* atom by atom, and `phrase in text` is a search for the phrase's atom.   *)
(* Scores and distances are in tenths: One stands for 1.0.                 *)
(***************************************************************************)
EXTENDS Naturals, Integers, Sequences, FiniteSets, TLC

VARIABLES
    store,      \* the Chroma collection: a sequence of entries, in store order
    geom,       \* distance of every entry from the embedding of every query text
    retrievers, \* retriever name -> the MultimodalRetriever object (top_k, cache)
    calls,      \* caller -> the call it is running (its position and locals)
    returned,   \* history: cache key -> first response the shared retriever returned
    served,     \* history: <<question, document_id>> -> first response of the handler
    ncalls,     \* history: number of calls started so far
    ret,        \* the last direct call of an operation: its arguments and its outcome
    passed      \* history: the file hashes add_documents was called with

vars == <<store, geom, retrievers, calls, returned, served, ncalls, ret, passed>>

---------------------------------------------------------------------------
(* Bounds *)

\* calls started in one behaviour
MaxCalls == 3

\* largest top_k a caller constructs a retriever with
MaxTopK == 3

\* atoms in a model output handed to the formatter
MaxTextLen == 5

\* texts handed to embed_documents, media chunks handed to the filter
MaxTexts == 3

\* the number of store operations in a run
MaxStoreOps == 2

\* the length of a chunk's content handed to split_large_chunks, and the
\* largest max_len
MaxContentLen == 4

MaxMaxLen == 3

---------------------------------------------------------------------------
(* Program constants *)

\* 1.0 in tenths: score = 1 - dist
One == 10

\* generate_response is given chunks[:3]
ContextChunks == 3

\* top_k default of the route
RouteTopK == 3

\* top_k default of MultimodalRetriever
DefaultTopK == 5

\* n_results default of ChromaClient.query
QueryNResults == 5

\* MAX_CHUNK_LENGTH of embeddings.py, 30000 characters, in blocks of 10000
\* characters: a text handed to embed_documents is a sequence of such blocks
EmbeddingsMaxChunkLength == 3

\* BATCH_SIZE of embeddings.py
BATCH_SIZE == 5

\* dimension of the fallback embedding
FallbackDim == 768

\* default top_k of _filter_relevant_media
FilterTopK == 2

\* MAX_CHUNK_LENGTH of chroma.py, 30000 characters, in blocks of 10000
\* characters: the content of a chunk handed to add_documents is a sequence
\* of such blocks
ChromaMaxChunkLength == 3

\* n_results of the query delete_document makes
DeleteNResults == 1000

\* the page stored for a chunk without page number
UnknownPage == -1

\* status codes
StatusConflict == 409

StatusTooLarge == 413

StatusUnsupported == 415

StatusUnprocessable == 422

StatusOK == 200

StatusBadRequest == 400

StatusNotFound == 404

StatusServerError == 500

\* Python's None where a text, a list or a mapping is expected
None == <<"None">>

---------------------------------------------------------------------------
(* Texts *)

\* str.isspace of one atom
IsSpace(a) == a \in {" ", "\n", "\t"}

\* str.lower of one atom
LowerAtom(a) ==
    CASE a = "A" -> "a"
      [] a = "B" -> "b"
      [] a = "I Don't Know" -> "i don't know"
      [] a = "I'M NOT SURE" -> "i'm not sure"
      [] a = "Not Enough Information" -> "not enough information"
      [] a = "CANNOT DETERMINE" -> "cannot determine"
      [] OTHER -> a

Lower(t) == [i \in 1..Len(t) |-> LowerAtom(t[i])]

RECURSIVE LStrip(_)
LStrip(t) == IF t # <<>> /\ IsSpace(Head(t)) THEN LStrip(Tail(t)) ELSE t

RECURSIVE RStrip(_)
RStrip(t) ==
    IF t # <<>> /\ IsSpace(t[Len(t)]) THEN RStrip(SubSeq(t, 1, Len(t) - 1)) ELSE t

\* str.strip
Strip(t) == RStrip(LStrip(t))

\* `phrase in text`
Contains(t, phrase) == \E i \in 1..Len(t) : t[i] = phrase

\* str.split("\n"): the lines of t, empty lines kept
RECURSIVE SplitLines(_)
SplitLines(t) ==
    IF \A i \in 1..Len(t) : t[i] # "\n"
    THEN <<t>>
    ELSE LET i == CHOOSE j \in 1..Len(t) :
                      t[j] = "\n" /\ \A k \in 1..(j - 1) : t[k] # "\n"
         IN  <<SubSeq(t, 1, i - 1)>> \o SplitLines(SubSeq(t, i + 1, Len(t)))

\* sep.join(parts)
RECURSIVE Join(_, _)
Join(sep, parts) ==
    IF parts = <<>> THEN <<>>
    ELSE IF Len(parts) = 1 THEN parts[1]
    ELSE parts[1] \o sep \o Join(sep, Tail(parts))

RECURSIVE SelectSeqOf(_, _)
SelectSeqOf(s, keep) ==
    IF s = <<>> THEN <<>>
    ELSE (IF Head(s) \in keep THEN <<Head(s)>> ELSE <<>>) \o SelectSeqOf(Tail(s), keep)

\* s[:n]
Take(s, n) == SubSeq(s, 1, IF Len(s) < n THEN Len(s) ELSE n)

Range(s) == {s[i] : i \in 1..Len(s)}

\* a value that `if x` takes as true: neither None nor empty
Truthy(x) == x # None /\ x # <<>>

\* MultimodalRetriever._normalize_question: question.strip().lower()
NormalizeQuestion(question) == Lower(Strip(question))

---------------------------------------------------------------------------
(* The vector store and ChromaClient.query *)

\* one entry of the collection, as add_documents writes it
Entry(id, doc_id, type, page, document, caption) ==
    [id |-> id, document |-> document,
     metadata |-> [doc_id |-> doc_id, type |-> type, page |-> page, caption |-> caption,
                   file_hash |-> None]]

\* the where filter ChromaClient.query builds
Matches(e, document_id, filter_types) ==
    /\ Truthy(document_id) => e.metadata.doc_id = document_id
    /\ Truthy(filter_types) => e.metadata.type \in Range(filter_types)

RECURSIVE InsertByDist(_, _, _)
InsertByDist(e, sorted, d) ==
    IF sorted = <<>> THEN <<e>>
    ELSE IF d[e.id] < d[Head(sorted).id] THEN <<e>> \o sorted
    ELSE <<Head(sorted)>> \o InsertByDist(e, Tail(sorted), d)

\* entries by ascending distance, equal distances in store order
RECURSIVE SortByDist(_, _)
SortByDist(s, d) ==
    IF s = <<>> THEN <<>>
    ELSE InsertByDist(s[Len(s)], SortByDist(SubSeq(s, 1, Len(s) - 1), d), d)

RECURSIVE SelectMatching(_, _, _)
SelectMatching(s, document_id, filter_types) ==
    IF s = <<>> THEN <<>>
    ELSE (IF Matches(Head(s), document_id, filter_types) THEN <<Head(s)>> ELSE <<>>)
         \o SelectMatching(Tail(s), document_id, filter_types)

\* collection.query(where, n_results, query): the n_results nearest matching
\* entries, nearest first, each with its distance
CollectionQuery(st, d, document_id, filter_types, n_results) ==
    LET near == Take(SortByDist(SelectMatching(st, document_id, filter_types), d), n_results)
    IN  [i \in 1..Len(near) |-> [entry |-> near[i], dist |-> d[near[i].id]]]

\* a bug variant of QueryRow: the distance itself as the score
QueryRowDistAsScore(r) ==
    LET e == r.entry
        doc == IF e.document = None THEN e.metadata.caption ELSE e.document
    IN  IF doc = None THEN <<>>
        ELSE <<[id |-> e.id, document |-> doc, metadata |-> e.metadata, score |-> r.dist]>>

\* a bug variant of QueryRow: an entry without document is skipped, caption or not
QueryRowNoCaption(r) ==
    LET e == r.entry
    IN  IF e.document = None THEN <<>>
        ELSE <<[id |-> e.id, document |-> e.document, metadata |-> e.metadata,
                score |-> One - r.dist]>>

\* one turn of the loop of ChromaClient.query: the caption stands in for a
\* missing document, an entry with neither is skipped, score = 1 - dist
QueryRow(r) ==
    LET e == r.entry
        doc == IF e.document = None THEN e.metadata.caption ELSE e.document
    IN  IF doc = None THEN <<>>
        ELSE <<[id |-> e.id, document |-> doc, metadata |-> e.metadata,
                score |-> One - r.dist]>>

RECURSIVE QueryRows(_)
QueryRows(raw) == IF raw = <<>> THEN <<>> ELSE QueryRow(Head(raw)) \o QueryRows(Tail(raw))

\* GeminiEmbeddings.embed_query, the provider answering: the vector of the
\* text, a non-empty list that stands for the text it embeds
EmbedQuery(text) == <<"vec">> \o text

\* the text a vector embeds
Embedded(vec) == Tail(vec)

\* ChromaClient.query, the store answering: ValueError or the results list;
\* queried tells whether collection.query was called. The collection embeds
\* a text itself when it is given no embedding.
ChromaQuery(st, g, query_text, query_embedding, document_id, filter_types, n_results) ==
    IF ~Truthy(query_text) /\ ~Truthy(query_embedding)
    THEN [error |-> "ValueError", results |-> <<>>, queried |-> FALSE]
    ELSE LET nearest_to == IF Truthy(query_embedding) THEN Embedded(query_embedding)
                           ELSE query_text
         IN  [error |-> "ok", queried |-> TRUE,
              results |-> QueryRows(CollectionQuery(st, g[nearest_to], document_id,
                                                    filter_types, n_results))]

\* ChromaClient.query: every outcome; given both a text and an embedding it
\* hands both to collection.query, which answers from the embedding or
\* rejects the pair, and ChromaClient.query raises the error again
ChromaQueryOutcomes(st, g, query_text, query_embedding, document_id, filter_types, n_results) ==
    {ChromaQuery(st, g, query_text, query_embedding, document_id, filter_types, n_results)}
    \cup (IF Truthy(query_text) /\ Truthy(query_embedding)
          THEN {[error |-> "ValueError", results |-> <<>>, queried |-> TRUE]}
          ELSE {})

\* MultimodalRetriever._format_results
FormatResults(results) ==
    [i \in 1..Len(results) |->
        [content |-> results[i].document,
         type |-> results[i].metadata.type,
         page_number |-> results[i].metadata.page,
         metadata |-> results[i].metadata]]

\* DocumentChunk(...) accepts the results: type is Literal["text"]
ChunksValid(results) == \A i \in 1..Len(results) : results[i].metadata.type = "text"

\* the outcome of retrieve when a provider or the store raised, or when a
\* result is no valid DocumentChunk
RetrievalFailed(provider_calls) ==
    [error |-> "RetrievalError", results |-> <<>>, chunks |-> <<>>,
     queries |-> IF provider_calls > 1 THEN <<"failed">> ELSE <<>>,
     query_args |-> <<>>,
     provider_calls |-> provider_calls]

\* a bug variant of RetrieveAnswer: asks the store for one entry more than top_k
RetrieveAnswerOffByOne(st, g, query, document_id, filter_types, top_k) ==
    LET answer == ChromaQuery(st, g, query, EmbedQuery(query), document_id,
                               filter_types, top_k + 1)
    IN  IF answer.error # "ok" THEN RetrievalFailed(1)
        ELSE IF ~ChunksValid(answer.results) THEN RetrievalFailed(2)
        ELSE [error |-> "ok", results |-> answer.results,
              chunks |-> FormatResults(answer.results),
              queries |-> <<[document_id |-> document_id, n_results |-> top_k + 1]>>,
              query_args |-> <<[query_text |-> query, query_embedding |-> EmbedQuery(query)]>>,
              provider_calls |-> 2]

\* MultimodalRetriever.retrieve when the embedding provider and the store
\* answer: one store query for top_k entries, its results formatted
RetrieveAnswer(st, g, query, document_id, filter_types, top_k) ==
    LET answer == ChromaQuery(st, g, query, EmbedQuery(query), document_id,
                               filter_types, top_k)
    IN  IF answer.error # "ok" THEN RetrievalFailed(1)
        ELSE IF ~ChunksValid(answer.results) THEN RetrievalFailed(2)
        ELSE [error |-> "ok", results |-> answer.results,
              chunks |-> FormatResults(answer.results),
              queries |-> <<[document_id |-> document_id, n_results |-> top_k]>>,
              query_args |-> <<[query_text |-> query, query_embedding |-> EmbedQuery(query)]>>,
              provider_calls |-> 2]

\* MultimodalRetriever.retrieve: every outcome; the embedding provider or the
\* store may raise, and any exception becomes RetrievalError
RetrieveOutcomes(st, g, query, document_id, filter_types, top_k) ==
    {RetrievalFailed(1), RetrievalFailed(2),
     RetrieveAnswer(st, g, query, document_id, filter_types, top_k)}

---------------------------------------------------------------------------
(* The generation provider and the steps of MultimodalRetriever that use it *)

\* what the generation provider replies to the correction prompt
CorrectReplies == {<<"a">>, <<"b", " ">>}

\* what the generation provider replies to the splitting prompt
SplitReplies(query) == {query, <<"a", "\n", " ", "b">>, <<" ", "\n">>}

\* what the generation provider replies to the answer prompt
GenReplies(query) ==
    {<<"answer to ">> \o query \o <<"\n">>, <<"Sorry, ", "I Don't Know">>, <<>>}

\* MultimodalRetriever.correct_query: the stripped reply, or the query
\* itself when the provider raised
CorrectOutcomes(query) == {Strip(r) : r \in CorrectReplies} \cup {query}

\* the non-blank lines of a reply, stripped, in the order of the lines
RECURSIVE NonBlankLines(_)
NonBlankLines(lines) ==
    IF lines = <<>> THEN <<>>
    ELSE (IF Truthy(Strip(Head(lines))) THEN <<Strip(Head(lines))>> ELSE <<>>)
         \o NonBlankLines(Tail(lines))

\* a bug variant of SplitReply: blank lines are kept
SplitReplyKeepingBlank(reply, query) ==
    LET lines == SplitLines(reply)
        sub_questions == [i \in 1..Len(lines) |-> Strip(lines[i])]
    IN  IF sub_questions # <<>> THEN sub_questions ELSE <<query>>

\* MultimodalRetriever.split_query_if_needed on one reply
SplitReply(reply, query) ==
    LET sub_questions == NonBlankLines(SplitLines(reply))
    IN  IF sub_questions # <<>> THEN sub_questions ELSE <<query>>

\* MultimodalRetriever.split_query_if_needed: every outcome, <<query>> when
\* the provider raised
SplitOutcomes(query) == {SplitReply(r, query) : r \in SplitReplies(query)} \cup {<<query>>}

\* the phrases generate_response takes as "no answer"
LowConfidencePhrases ==
    {"i don't know", "i'm not sure", "not enough information", "cannot determine"}

LowConfidence(text) == \E p \in LowConfidencePhrases : Contains(Lower(text), p)

\* details of the GenerationError raised by generate_response
EmptyContextDetail == <<"Your question doesn't seem to be related to the uploaded document.">>

NoAnswerDetail == <<"Sorry, no relevant answer could be found in the document.">>

GenerationFailedPrefix == <<"Response generation failed: ">>

ProviderErrorText == <<"provider error">>

\* str(e) of a GenerationError: the status code, then the detail
StrGenerationError(detail) == <<"500", ": ">> \o detail

NoFormat == [type |-> "None", content |-> <<>>]

\* the atom of the fence that opens a markdown block (three backquotes, then
\* the word markdown)
TableFence == "<fence>markdown"

ImageMarker == "[Image:"

\* MultimodalRetriever._detect_special_content
DetectSpecialContent(text) ==
    IF Contains(text, TableFence) THEN [type |-> "table", content |-> text]
    ELSE IF Contains(text, ImageMarker) THEN [type |-> "image", content |-> text]
    ELSE NoFormat

NoResponse == [answer |-> None, sources |-> <<>>, formatted_response |-> NoFormat]

\* the sources list generate_response builds from its context chunks
SourcesOf(context_chunks) ==
    [i \in 1..Len(context_chunks) |->
        [doc_id |-> context_chunks[i].metadata.doc_id,
         page |-> context_chunks[i].page_number,
         type |-> context_chunks[i].type]]

GenFailure(detail, provider_calls) ==
    [error |-> "GenerationError", detail |-> detail, response |-> NoResponse,
     provider_calls |-> provider_calls]

\* a bug variant of GenerateFrom: the phrases are looked for in the reply as
\* it is, not in its lower-cased form
GenerateFromCaseSensitive(text, context_chunks) ==
    IF ~Truthy(text) \/ \E p \in LowConfidencePhrases : Contains(text, p)
    THEN GenFailure(GenerationFailedPrefix \o StrGenerationError(NoAnswerDetail), 1)
    ELSE [error |-> "ok", detail |-> <<>>,
          response |-> [answer |-> Strip(text),
                        sources |-> SourcesOf(context_chunks),
                        formatted_response |-> DetectSpecialContent(text)],
          provider_calls |-> 1]

\* generate_response after the provider replied with text
GenerateFrom(text, context_chunks) ==
    IF ~Truthy(text) \/ LowConfidence(text)
    THEN GenFailure(GenerationFailedPrefix \o StrGenerationError(NoAnswerDetail), 1)
    ELSE [error |-> "ok", detail |-> <<>>,
          response |-> [answer |-> Strip(text),
                        sources |-> SourcesOf(context_chunks),
                        formatted_response |-> DetectSpecialContent(text)],
          provider_calls |-> 1]

\* a bug variant of GenerateOutcomes: no check of an empty context
GenerateOutcomesUnchecked(query, context_chunks) ==
    {GenFailure(GenerationFailedPrefix \o ProviderErrorText, 1)}
    \cup {GenerateFrom(text, context_chunks) : text \in GenReplies(query)}

\* MultimodalRetriever.generate_response: every outcome
GenerateOutcomes(query, context_chunks) ==
    IF context_chunks = <<>>
    THEN {GenFailure(EmptyContextDetail, 0)}
    ELSE {GenFailure(GenerationFailedPrefix \o ProviderErrorText, 1)}
         \cup {GenerateFrom(text, context_chunks) : text \in GenReplies(query)}

---------------------------------------------------------------------------
(* Inputs *)

Callers == {"c1", "c2"}

\* the retriever the direct callers share; a request's own retriever is
\* named after its caller
Shared == "shared"

RetrieverNames == {Shared} \cup Callers

\* questions the callers of end_to_end_query ask
RawQuestions == {<<"a">>, <<" ", "A">>, <<"b">>}

\* the question of two calls that overlap
OverlapQuestions == {<<"a">>}

DocumentIds == {<<"D1">>}

\* every text that can reach retrieve
QueryTexts ==
    LET corrected == UNION {CorrectOutcomes(q) : q \in RawQuestions}
    IN  UNION {Range(sq) : sq \in UNION {SplitOutcomes(q) : q \in corrected}}

Dists == {1, 5, 8}

IdsOf(st) == {st[i].id : i \in 1..Len(st)}

\* the corpus of the pipeline: one document of two text chunks
PipelineCorpus ==
    <<Entry("D1_txt_0", <<"D1">>, "text", 1, <<"Revenue grew 10% in Q1">>, None),
      Entry("D1_txt_1", <<"D1">>, "text", 2, <<"Expenses fell 5%">>, None)>>

EmptyCorpus == <<>>

\* the first chunk is near the questions about "a", the second near the others
TopicGeom(st) ==
    [t \in QueryTexts |->
        [id \in IdsOf(st) |->
            IF Contains(Lower(t), "a") <=> (id = "D1_txt_0") THEN 1 ELSE 8]]

\* entries the corpora of the direct calls are made of: text chunks of two
\* documents, an image with neither document nor caption, an image with a caption
PoolA0 == Entry("A_txt_0", <<"A">>, "text", 1, <<"a0">>, None)

PoolA1 == Entry("A_txt_1", <<"A">>, "text", 2, <<"a1">>, None)

PoolB0 == Entry("B_txt_0", <<"B">>, "text", 1, <<"b0">>, None)

PoolAImg == Entry("A_img_0", <<"A">>, "image", 1, None, None)

PoolBImg == Entry("B_img_0", <<"B">>, "image", 2, None, <<"a cat">>)

\* an entry whose document is white space
PoolABlank == Entry("A_txt_1", <<"A">>, "text", 2, <<" ">>, None)

DirectCorpora ==
    {<<PoolA0, PoolA1, PoolB0>>,
     <<PoolA0, PoolAImg, PoolA1>>,
     <<PoolB0, PoolBImg, PoolA0, PoolA1>>,
     <<PoolA0, PoolABlank>>}

DirectQueries == {<<"a">>}

DirectDocIds == {<<"A">>, <<"B">>, None}

\* the request objects query_documents is called with: the QueryRequest of
\* schemas.py has the attributes question and document_ids; the handler reads
\* question and document_id
HandlerQuestions == {<<" ", "A">>, <<" ">>, None}

HandlerDocIds == {<<"D1">>, <<" ">>, None}

Requests ==
    {[attrs |-> {"question", "document_id"}, question |-> q, document_id |-> d] :
        q \in HandlerQuestions, d \in HandlerDocIds}
    \cup {[attrs |-> {"question", "document_ids"}, question |-> q, document_id |-> None] :
        q \in HandlerQuestions}

NoRequest == [attrs |-> {}, question |-> None, document_id |-> None]

---------------------------------------------------------------------------
(* State *)

EmptyMap == [k \in {} |-> NoResponse]

\* dict[k] = v
Put(m, k, v) == [x \in DOMAIN m \cup {k} |-> IF x = k THEN v ELSE m[x]]

\* dict.setdefault(k, v)
PutIfAbsent(m, k, v) == IF k \in DOMAIN m THEN m ELSE Put(m, k, v)

\* MultimodalRetriever.__init__
NewRetriever(top_k) == [top_k |-> top_k, cache |-> EmptyMap]

\* a caller that runs no call
Idle ==
    [pc |-> "idle", kind |-> "none", retr |-> Shared, request |-> NoRequest,
     query |-> <<>>, document_id |-> <<>>, cache_key |-> <<>>,
     corrected_query |-> <<>>, sub_questions |-> <<>>, i |-> 0, chunks |-> <<>>,
     answers |-> <<>>, sources |-> <<>>, result |-> NoResponse, error |-> "ok",
     status |-> 0,
     \* history of the call
     hit |-> FALSE, known |-> FALSE, repeat |-> FALSE, wrote |-> 0,
     ncorrect |-> 0, nsplit |-> 0, nretrieve |-> 0, ngenerate |-> 0, provider |-> 0,
     retrieval_failed |-> FALSE, generation_failed |-> FALSE, fed |-> <<>>]

NoCall == [op |-> "none"]

InitCommon ==
    /\ retrievers = [n \in RetrieverNames |-> NewRetriever(DefaultTopK)]
    /\ calls = [c \in Callers |-> Idle]
    /\ returned = EmptyMap
    /\ served = EmptyMap
    /\ ncalls = 0
    /\ ret = NoCall
    /\ passed = {}

Init ==
    /\ store \in {PipelineCorpus, EmptyCorpus}
    /\ geom = TopicGeom(store)
    /\ InitCommon

InitDirect ==
    /\ store \in DirectCorpora
    /\ geom \in {[t \in QueryTexts \cup DirectQueries |-> d] : d \in [IdsOf(store) -> Dists]}
    /\ InitCommon

---------------------------------------------------------------------------
(* MultimodalRetriever.end_to_end_query, step by step *)

\* a bug variant of CacheKey: the question trimmed but not lower-cased
CacheKeyCaseSensitive(document_id, query) == <<document_id, Strip(query)>>

\* the cache key: (document_id, normalized question)
CacheKey(document_id, query) == <<document_id, NormalizeQuestion(query)>>

\* history: the key under which the questions of equal normalized form, asked
\* of one document, are remembered
QuestionKey(document_id, question) == <<document_id, NormalizeQuestion(question)>>

\* the cache lookup that opens end_to_end_query: a hit returns the cached response
Begin(rec, retr, query, document_id) ==
    LET key == CacheKey(document_id, query)
        cache == retrievers[retr].cache
        base == [rec EXCEPT !.retr = retr, !.query = query, !.document_id = document_id,
                            !.cache_key = key,
                            !.known = retr = Shared
                                      /\ QuestionKey(document_id, query) \in DOMAIN returned]
    IN  IF key \in DOMAIN cache
        THEN [base EXCEPT !.pc = "e2e_done", !.hit = TRUE, !.result = cache[key]]
        ELSE [base EXCEPT !.pc = "correct"]

AllIdle == \A c \in Callers : calls[c].pc = "idle"

\* a caller calls end_to_end_query on the shared retriever while no other call runs
E2EStart(c) ==
    /\ AllIdle
    /\ ncalls < MaxCalls
    /\ \E q \in RawQuestions, d \in DocumentIds :
          calls' = [calls EXCEPT ![c] = Begin([Idle EXCEPT !.kind = "direct"], Shared, q, d)]
    /\ ncalls' = ncalls + 1
    /\ UNCHANGED <<store, geom, retrievers, returned, served, ret, passed>>

\* a caller calls end_to_end_query on the shared retriever, whatever the
\* other callers are doing
E2EStartOverlap(c) ==
    /\ calls[c].pc = "idle"
    /\ ncalls < MaxCalls
    /\ \E q \in OverlapQuestions, d \in DocumentIds :
          calls' = [calls EXCEPT ![c] = Begin([Idle EXCEPT !.kind = "direct"], Shared, q, d)]
    /\ ncalls' = ncalls + 1
    /\ UNCHANGED <<store, geom, retrievers, returned, served, ret, passed>>

\* corrected_query = await self.correct_query(query)
CorrectStep(c) ==
    /\ calls[c].pc = "correct"
    /\ \E out \in CorrectOutcomes(calls[c].query) :
          calls' = [calls EXCEPT ![c] =
                        [@ EXCEPT !.pc = "split", !.corrected_query = out,
                                  !.ncorrect = @ + 1, !.provider = @ + 1]]
    /\ UNCHANGED <<store, geom, retrievers, returned, served, ncalls, ret, passed>>

\* sub_questions = await self.split_query_if_needed(corrected_query)
SplitStep(c) ==
    /\ calls[c].pc = "split"
    /\ \E out \in SplitOutcomes(calls[c].corrected_query) :
          calls' = [calls EXCEPT ![c] =
                        [@ EXCEPT !.pc = IF out = <<>> THEN "finish" ELSE "retrieve",
                                  !.sub_questions = out, !.i = 1,
                                  !.nsplit = @ + 1, !.provider = @ + 1]]
    /\ UNCHANGED <<store, geom, retrievers, returned, served, ncalls, ret, passed>>

\* a bug variant of AfterRetrieve: a failed retrieval counts as no chunk found
AfterRetrieveSwallowed(rec, out) ==
    [rec EXCEPT !.pc = "generate", !.chunks = out.chunks,
                !.nretrieve = @ + 1, !.provider = @ + out.provider_calls,
                !.retrieval_failed = @ \/ out.error # "ok"]

\* chunks = await self.retrieve(sub_q, document_id): RetrievalError leaves
\* end_to_end_query
AfterRetrieve(rec, out) ==
    IF out.error # "ok"
    THEN [rec EXCEPT !.pc = "e2e_done", !.error = "RetrievalError",
                     !.nretrieve = @ + 1, !.provider = @ + out.provider_calls,
                     !.retrieval_failed = TRUE]
    ELSE [rec EXCEPT !.pc = "generate", !.chunks = out.chunks,
                     !.nretrieve = @ + 1, !.provider = @ + out.provider_calls]

RetrieveStep(c) ==
    /\ calls[c].pc = "retrieve"
    /\ \E out \in RetrieveOutcomes(store, geom, calls[c].sub_questions[calls[c].i],
                                   calls[c].document_id, None,
                                   retrievers[calls[c].retr].top_k) :
          calls' = [calls EXCEPT ![c] = AfterRetrieve(@, out)]
    /\ UNCHANGED <<store, geom, retrievers, returned, served, ncalls, ret, passed>>

\* the try block of the loop: the sub-question's answer and sources are
\* appended; on GenerationError str(e) is appended as the answer
AfterGenerate(rec, context, out) ==
    LET last == rec.i = Len(rec.sub_questions)
        next == [rec EXCEPT !.pc = IF last THEN "finish" ELSE "retrieve",
                            !.i = IF last THEN @ ELSE @ + 1,
                            !.chunks = <<>>,
                            !.ngenerate = @ + 1,
                            !.provider = @ + out.provider_calls,
                            !.fed = IF out.provider_calls > 0 THEN @ \o context ELSE @]
    IN  IF out.error = "ok"
        THEN [next EXCEPT !.answers = Append(@, out.response.answer),
                          !.sources = @ \o out.response.sources]
        ELSE [next EXCEPT !.answers = Append(@, StrGenerationError(out.detail)),
                          !.generation_failed = TRUE]

\* sub_response = await self.generate_response(sub_q, chunks[:3])
GenerateStep(c) ==
    /\ calls[c].pc = "generate"
    /\ LET context == Take(calls[c].chunks, ContextChunks)
       IN  \E out \in GenerateOutcomes(calls[c].sub_questions[calls[c].i], context) :
              calls' = [calls EXCEPT ![c] = AfterGenerate(@, context, out)]
    /\ UNCHANGED <<store, geom, retrievers, returned, served, ncalls, ret, passed>>

\* the separator of the sub-answers
AnswerSeparator == <<"\n", "\n">>

\* the response end_to_end_query builds from the answers and the sources
FinalResponse(answers, sources) ==
    LET final_answer == Join(AnswerSeparator, answers)
    IN  [answer |-> final_answer, sources |-> sources,
         formatted_response |-> DetectSpecialContent(final_answer)]

\* self.cache[cache_key] = final_response
CacheWrite(cache, key, response) == Put(cache, key, response)

\* the response is built, stored in the cache and returned
FinishStep(c) ==
    /\ calls[c].pc = "finish"
    /\ LET rec == calls[c]
           final_response == FinalResponse(rec.answers, rec.sources)
       IN  /\ retrievers' = [retrievers EXCEPT ![rec.retr].cache =
                                 CacheWrite(@, rec.cache_key, final_response)]
           /\ calls' = [calls EXCEPT ![c] =
                            [@ EXCEPT !.pc = "e2e_done", !.result = final_response,
                                      !.wrote = @ + 1]]
           /\ returned' = IF rec.retr = Shared
                          THEN PutIfAbsent(returned, QuestionKey(rec.document_id, rec.query),
                                           final_response)
                          ELSE returned
    /\ UNCHANGED <<store, geom, served, ncalls, ret, passed>>

\* the caller has taken the result of its call; the retriever of a request
\* is dropped with it
Return(c) ==
    /\ \/ calls[c].pc = "e2e_done" /\ calls[c].kind = "direct"
       \/ calls[c].pc = "h_done"
    /\ calls' = [calls EXCEPT ![c] = Idle]
    /\ retrievers' = IF calls[c].retr # Shared
                     THEN [retrievers EXCEPT ![calls[c].retr] = NewRetriever(DefaultTopK)]
                     ELSE retrievers
    /\ UNCHANGED <<store, geom, returned, served, ncalls, ret, passed>>

Next ==
    \E c \in Callers :
        \/ E2EStart(c)
        \/ CorrectStep(c)
        \/ SplitStep(c)
        \/ RetrieveStep(c)
        \/ GenerateStep(c)
        \/ FinishStep(c)
        \/ Return(c)

Spec == Init /\ [][Next]_vars

NextOverlap ==
    \E c \in Callers :
        \/ E2EStartOverlap(c)
        \/ CorrectStep(c)
        \/ SplitStep(c)
        \/ RetrieveStep(c)
        \/ GenerateStep(c)
        \/ FinishStep(c)
        \/ Return(c)

SpecOverlap == Init /\ [][NextOverlap]_vars

---------------------------------------------------------------------------
(* query_documents, the handler of POST /query *)

\* retriever = MultimodalRetriever(top_k=top_k): the retriever of a request
\* is a new object, its own
HandlerRetriever(c) == c

\* the handler up to its try block: the log line reads request.question and
\* request.document_id, then a blank question or document id is refused
HandlerEntry(c, req) ==
    LET base == [Idle EXCEPT !.kind = "handler", !.retr = HandlerRetriever(c),
                             !.request = req,
                             !.repeat = <<req.question, req.document_id>> \in DOMAIN served]
    IN  IF ~({"question", "document_id"} \subseteq req.attrs)
        THEN [base EXCEPT !.pc = "h_done", !.error = "AttributeError",
                          !.status = StatusServerError]
        ELSE IF ~Truthy(req.question) \/ ~Truthy(Strip(req.question))
        THEN [base EXCEPT !.pc = "h_done", !.error = "HTTPException",
                          !.status = StatusBadRequest]
        ELSE IF ~Truthy(req.document_id) \/ ~Truthy(Strip(req.document_id))
        THEN [base EXCEPT !.pc = "h_done", !.error = "HTTPException",
                          !.status = StatusBadRequest]
        ELSE [base EXCEPT !.pc = "h_correct"]

\* a request arrives while no other is handled
HandlerStart(c) ==
    /\ AllIdle
    /\ ncalls < MaxCalls
    /\ \E req \in Requests :
          LET rec == HandlerEntry(c, req)
          IN  /\ calls' = [calls EXCEPT ![c] = rec]
              /\ retrievers' = IF rec.pc = "h_correct" /\ rec.retr # Shared
                               THEN [retrievers EXCEPT ![rec.retr] = NewRetriever(RouteTopK)]
                               ELSE retrievers
    /\ ncalls' = ncalls + 1
    /\ UNCHANGED <<store, geom, returned, served, ret, passed>>

\* the query the handler hands to end_to_end_query
HandlerQuery(question, corrected_query) == corrected_query

\* corrected_query = await retriever.correct_query(request.question), then
\* end_to_end_query(query=corrected_query, document_id=request.document_id)
\* up to its cache lookup
HandlerCorrect(c) ==
    /\ calls[c].pc = "h_correct"
    /\ \E out \in CorrectOutcomes(calls[c].request.question) :
          calls' = [calls EXCEPT ![c] =
                        Begin([@ EXCEPT !.provider = @ + 1], calls[c].retr,
                              HandlerQuery(calls[c].request.question, out),
                              calls[c].request.document_id)]
    /\ UNCHANGED <<store, geom, retrievers, returned, served, ncalls, ret, passed>>

\* the status the handler answers with
HandlerStatus(error) ==
    CASE error = "ok" -> StatusOK
      [] error = "RetrievalError" -> StatusNotFound
      [] OTHER -> StatusServerError

\* the handler returns the response or turns the exception into an HTTP error
HandlerRespond(c) ==
    /\ calls[c].pc = "e2e_done"
    /\ calls[c].kind = "handler"
    /\ LET rec == calls[c]
           status == HandlerStatus(rec.error)
       IN  /\ calls' = [calls EXCEPT ![c] = [@ EXCEPT !.pc = "h_done", !.status = status]]
           /\ served' = IF status = StatusOK
                        THEN PutIfAbsent(served, <<rec.request.question, rec.request.document_id>>,
                                         rec.result)
                        ELSE served
    /\ UNCHANGED <<store, geom, retrievers, returned, ncalls, ret, passed>>

NextHandler ==
    \E c \in Callers :
        \/ HandlerStart(c)
        \/ HandlerCorrect(c)
        \/ CorrectStep(c)
        \/ SplitStep(c)
        \/ RetrieveStep(c)
        \/ GenerateStep(c)
        \/ FinishStep(c)
        \/ HandlerRespond(c)
        \/ Return(c)

SpecHandler == Init /\ [][NextHandler]_vars

---------------------------------------------------------------------------
(* Direct calls of retrieve and generate_response *)

\* retrieve(query, document_id) on a retriever constructed with top_k
RetrieveCall ==
    /\ \E q \in DirectQueries, d \in DirectDocIds, k \in 1..MaxTopK :
          \E out \in RetrieveOutcomes(store, geom, q, d, None, k) :
             ret' = [op |-> "retrieve", query |-> q, document_id |-> d, top_k |-> k,
                     context_chunks |-> <<>>, out |-> out]
    /\ UNCHANGED <<store, geom, retrievers, calls, returned, served, ncalls, passed>>

\* the contexts generate_response is called with: none, or retrieved chunks
DirectContexts ==
    {<<>>} \cup {RetrieveAnswer(store, geom, q, d, None, k).chunks :
                    q \in DirectQueries, d \in DirectDocIds, k \in 1..MaxTopK}

\* generate_response(query, context_chunks)
GenerateCall ==
    /\ \E q \in DirectQueries, context \in DirectContexts :
          \E out \in GenerateOutcomes(q, context) :
             ret' = [op |-> "generate_response", query |-> q, document_id |-> None,
                     top_k |-> 0, context_chunks |-> context, out |-> out]
    /\ UNCHANGED <<store, geom, retrievers, calls, returned, served, ncalls, passed>>

\* what the generation provider replies to the answer prompt of a direct call
DirectReplies(query) ==
    GenReplies(query)
    \cup {<<"Well, ", "I'M NOT SURE">>, <<"Not Enough Information">>,
          <<"it ", "CANNOT DETERMINE", "\n">>, <<"i don't know">>,
          <<" ">>, <<" ", "a", "\n">>}

\* generate_response(query, context_chunks) with some context, the provider
\* replying with a text
GenerateReplyCall ==
    /\ \E q \in DirectQueries, context \in DirectContexts \ {<<>>} :
          \E text \in DirectReplies(q) :
             ret' = [op |-> "generate_reply", query |-> q, document_id |-> None,
                     top_k |-> 0, context_chunks |-> context, reply |-> text,
                     out |-> GenerateFrom(text, context)]
    /\ UNCHANGED <<store, geom, retrievers, calls, returned, served, ncalls, passed>>

\* ChromaClient.query(query_text, query_embedding, document_id) with the
\* default n_results
QueryCall ==
    /\ \E q \in DirectQueries, d \in DirectDocIds, k \in {QueryNResults} :
       \E query_text \in {None, q}, query_embedding \in {None, EmbedQuery(q)} :
       \E out \in ChromaQueryOutcomes(store, geom, query_text, query_embedding, d, None, k) :
          ret' = [op |-> "query", query |-> q, document_id |-> d, top_k |-> k,
                  context_chunks |-> <<>>, query_text |-> query_text,
                  query_embedding |-> query_embedding, out |-> out]
    /\ UNCHANGED <<store, geom, retrievers, calls, returned, served, ncalls, passed>>

NextDirect == RetrieveCall \/ GenerateCall \/ GenerateReplyCall \/ QueryCall

SpecDirect == InitDirect /\ [][NextDirect]_vars

---------------------------------------------------------------------------
(* MultimodalFormatter *)

\* the atom of a fence that closes a block (three backquotes)
CloseFence == "<fence>"

\* an atom that starts with three backquotes
IsFence(a) == a \in {CloseFence, TableFence}

\* the atoms model outputs are made of
FormatAtoms == {TableFence, CloseFence, "\n", ImageMarker, "]", "a"}

\* the texts of at most n atoms
TextsUpTo(n) == UNION {[1..k -> FormatAtoms] : k \in 0..n}

\* QueryResponse(**fields): answer and sources are required fields,
\* formatted_response defaults to None
NewQueryResponse(fields) ==
    IF ~({"answer", "sources"} \subseteq DOMAIN fields)
    THEN [error |-> "ValidationError", response |-> NoResponse]
    ELSE [error |-> "ok",
          response |-> [answer |-> fields.answer, sources |-> fields.sources,
                        formatted_response |->
                            IF "formatted_response" \in DOMAIN fields
                            THEN fields.formatted_response ELSE NoFormat]]

\* the matches of the table pattern: an opening fence, a line end, the
\* shortest run of anything, a line end and three backquotes
TableMatches(text) ==
    {m \in (1..Len(text)) \X (1..Len(text)) :
        /\ text[m[1]] = TableFence /\ m[1] + 1 < m[2] /\ m[2] < Len(text)
        /\ text[m[1] + 1] = "\n" /\ text[m[2]] = "\n" /\ IsFence(text[m[2] + 1])
        /\ \A j \in (m[1] + 2)..(m[2] - 1) : ~(text[j] = "\n" /\ IsFence(text[j + 1]))}

\* MultimodalFormatter.extract_tables: the first block, stripped, or None
ExtractTables(text) ==
    IF TableMatches(text) = {} THEN NoFormat
    ELSE LET m == CHOOSE x \in TableMatches(text) : \A y \in TableMatches(text) : x[1] <= y[1]
         IN  [type |-> "table", content |-> Strip(SubSeq(text, m[1] + 2, m[2] - 1))]

\* the matches of the image pattern: the marker, then a closing bracket on
\* the same line
ImageMatches(text) ==
    {m \in (1..Len(text)) \X (1..Len(text)) :
        /\ text[m[1]] = ImageMarker /\ m[1] < m[2] /\ text[m[2]] = "]"
        /\ \A j \in (m[1] + 1)..(m[2] - 1) : text[j] \notin {"\n", "]"}}

\* MultimodalFormatter.extract_images
ExtractImages(text) ==
    IF ImageMatches(text) = {} THEN NoFormat
    ELSE [type |-> "image", content |-> text]

\* MultimodalFormatter.format_response
FormatResponse(gemini_output) ==
    LET table_data == ExtractTables(gemini_output)
        image_data == ExtractImages(gemini_output)
    IN  IF table_data # NoFormat
        THEN NewQueryResponse([answer |-> gemini_output, formatted_response |-> table_data])
        ELSE IF image_data # NoFormat
        THEN NewQueryResponse([answer |-> gemini_output, formatted_response |-> image_data])
        ELSE NewQueryResponse([answer |-> gemini_output,
                               formatted_response |->
                                   [type |-> "text", content |-> gemini_output]])

\* the model output the formatter is about to be called with
InitFormat ==
    /\ store = EmptyCorpus
    /\ geom = TopicGeom(store)
    /\ retrievers = [n \in RetrieverNames |-> NewRetriever(DefaultTopK)]
    /\ calls = [c \in Callers |-> Idle]
    /\ returned = EmptyMap
    /\ served = EmptyMap
    /\ ncalls = 0
    /\ passed = {}
    /\ ret \in {[op |-> "input", text |-> t] : t \in TextsUpTo(MaxTextLen)}

\* format_response(gemini_output), and _detect_special_content on the same
\* text
FormatCall ==
    /\ ret.op = "input"
    /\ ret' = [op |-> "format_response", text |-> ret.text, out |-> FormatResponse(ret.text),
               detected |-> DetectSpecialContent(ret.text)]
    /\ UNCHANGED <<store, geom, retrievers, calls, returned, served, ncalls, passed>>

NextFormat == FormatCall

SpecFormat == InitFormat /\ [][NextFormat]_vars

---------------------------------------------------------------------------
(* Best-effort steps: correct_query, embed_documents, _filter_relevant_media *)

\* the provider raised instead of replying
ProviderRaised == <<"raised">>

\* MultimodalRetriever.correct_query on one outcome of the provider
CorrectQuery(query, reply) == IF reply = ProviderRaised THEN query ELSE Strip(reply)

\* MultimodalRetriever.split_query_if_needed on one outcome of the provider
SplitQuery(query, reply) ==
    IF reply = ProviderRaised THEN <<query>> ELSE SplitReply(reply, query)

\* the atoms the replies to the splitting prompt are made of
SplitAtoms == {"a", "b", " ", "\n"}

\* the questions split_query_if_needed is called with: the raw questions, a
\* blank one and an empty one
SplitQueries == RawQuestions \cup {<<" ">>, <<>>}

\* [0.0] * 768
FallbackEmbedding == [i \in 1..FallbackDim |-> "0.0"]

\* [text[i:i+MAX_CHUNK_LENGTH] for i in range(0, len(text), MAX_CHUNK_LENGTH)]
RECURSIVE Slices(_)
Slices(text) ==
    IF Len(text) <= EmbeddingsMaxChunkLength THEN (IF text = <<>> THEN <<>> ELSE <<text>>)
    ELSE <<SubSeq(text, 1, EmbeddingsMaxChunkLength)>>
         \o Slices(SubSeq(text, EmbeddingsMaxChunkLength + 1, Len(text)))

\* what the loop of embed_documents appends to a batch for one text
PartsOf(text) == IF Len(text) > EmbeddingsMaxChunkLength THEN Slices(text) ELSE <<text>>

\* the parts of all texts, in the order the loop appends them
RECURSIVE AllParts(_)
AllParts(texts) == IF texts = <<>> THEN <<>> ELSE PartsOf(Head(texts)) \o AllParts(Tail(texts))

\* a bug variant of SafeEmbed: a failed text gets no embedding
SafeEmbedSkipping(text_batch, first, failed) ==
    LET kept == {i \in 1..Len(text_batch) : first + i - 1 \notin failed}
        Nth(k) == CHOOSE i \in kept : Cardinality({j \in kept : j <= i}) = k
    IN  [k \in 1..Cardinality(kept) |-> EmbedQuery(text_batch[Nth(k)])]

\* safe_embed(text_batch): first is the number of the provider call made for
\* the first text of the batch, failed the numbers of the calls that raise
SafeEmbed(text_batch, first, failed) ==
    [i \in 1..Len(text_batch) |->
        IF first + i - 1 \in failed THEN FallbackEmbedding ELSE EmbedQuery(text_batch[i])]

\* the batches of embed_documents: a batch is embedded when it holds
\* BATCH_SIZE parts, the last one when the texts are used up
RECURSIVE EmbedBatches(_, _, _)
EmbedBatches(parts, first, failed) ==
    IF parts = <<>> THEN <<>>
    ELSE IF Len(parts) <= BATCH_SIZE THEN SafeEmbed(parts, first, failed)
    ELSE SafeEmbed(SubSeq(parts, 1, BATCH_SIZE), first, failed)
         \o EmbedBatches(SubSeq(parts, BATCH_SIZE + 1, Len(parts)), first + BATCH_SIZE, failed)

\* GeminiEmbeddings.embed_documents
EmbedDocuments(texts, failed) == EmbedBatches(AllParts(texts), 1, failed)

\* str.upper of the first atom of a reply starts with "YES"
StartsWithYes(text) == text # <<>> /\ Head(text) \in {"YES", "yes", "Yes, it does", "YESTERDAY"}

\* _filter_relevant_media: replies[i] is what the provider does for chunk i
RECURSIVE FilterLoop(_, _)
FilterLoop(media_chunks, replies) ==
    IF media_chunks = <<>> THEN <<>>
    ELSE (IF Head(replies) # ProviderRaised /\ StartsWithYes(Strip(Head(replies)))
          THEN <<Head(media_chunks)>> ELSE <<>>)
         \o FilterLoop(Tail(media_chunks), Tail(replies))

\* a bug variant of FilterRelevantMedia: truncated before the provider is asked
FilterRelevantMediaTruncatedFirst(media_chunks, replies, top_k) ==
    FilterLoop(Take(media_chunks, top_k), Take(replies, top_k))

\* MultimodalRetriever._filter_relevant_media
FilterRelevantMedia(media_chunks, replies, top_k) == Take(FilterLoop(media_chunks, replies), top_k)

\* texts handed to embed_documents: empty, short, of the largest length that
\* is not split, split in two and split in three
EmbedTexts ==
    {<<>>, <<"x">>, <<"x", "y", "x">>, <<"x", "y", "x", "y">>,
     <<"y", "y", "x", "x", "y", "y", "x">>}

\* the provider calls of one embed_documents that raise, by their number:
\* none, some of the first batch, the first of the second batch
FailedCalls == SUBSET {1, 2, 6}

SeqsUpTo(S, n) == UNION {[1..k -> S] : k \in 0..n}

\* media chunks handed to the filter
MediaChunks ==
    {[content |-> <<"| a | b |">>, type |-> "table", page_number |-> 1,
      metadata |-> [doc_id |-> <<"D1">>, type |-> "table", page |-> 1, caption |-> None]],
     [content |-> <<"a cat">>, type |-> "image", page_number |-> 2,
      metadata |-> [doc_id |-> <<"D1">>, type |-> "image", page |-> 2, caption |-> <<"a cat">>]]}

\* what the provider does when asked about one media chunk
FilterReplies == {<<"YES">>, <<" ", "yes", "\n">>, <<"NO">>, <<>>, ProviderRaised}

\* the input of one best-effort step and what the provider does with it
BestEffortInput(r) ==
    \/ \E q \in RawQuestions, reply \in CorrectReplies \cup {ProviderRaised} :
          r = [op |-> "correct_query_in", query |-> q, reply |-> reply]
    \/ \E q \in SplitQueries, reply \in SeqsUpTo(SplitAtoms, MaxTextLen) \cup {ProviderRaised} :
          r = [op |-> "split_in", query |-> q, reply |-> reply]
    \/ \E t \in SeqsUpTo(EmbedTexts, MaxTexts), f \in FailedCalls :
          r = [op |-> "embed_documents_in", texts |-> t, failed |-> f]
    \/ \E m \in SeqsUpTo(MediaChunks, MaxTexts), k \in 1..FilterTopK :
          \E replies \in [1..Len(m) -> FilterReplies] :
             r = [op |-> "filter_in", media_chunks |-> m, replies |-> replies, top_k |-> k]

InitBestEffort ==
    /\ store = EmptyCorpus
    /\ geom = TopicGeom(store)
    /\ retrievers = [n \in RetrieverNames |-> NewRetriever(DefaultTopK)]
    /\ calls = [c \in Callers |-> Idle]
    /\ returned = EmptyMap
    /\ served = EmptyMap
    /\ ncalls = 0
    /\ passed = {}
    /\ BestEffortInput(ret)

\* correct_query(query)
CorrectCall ==
    /\ ret.op = "correct_query_in"
    /\ ret' = [op |-> "correct_query", query |-> ret.query, reply |-> ret.reply,
               error |-> "ok", out |-> CorrectQuery(ret.query, ret.reply)]
    /\ UNCHANGED <<store, geom, retrievers, calls, returned, served, ncalls, passed>>

\* split_query_if_needed(query)
SplitCall ==
    /\ ret.op = "split_in"
    /\ ret' = [op |-> "split", query |-> ret.query, reply |-> ret.reply,
               error |-> "ok", out |-> SplitQuery(ret.query, ret.reply)]
    /\ UNCHANGED <<store, geom, retrievers, calls, returned, served, ncalls, passed>>

\* embed_documents(texts)
EmbedDocumentsCall ==
    /\ ret.op = "embed_documents_in"
    /\ ret' = [op |-> "embed_documents", texts |-> ret.texts, failed |-> ret.failed,
               error |-> "ok", out |-> EmbedDocuments(ret.texts, ret.failed)]
    /\ UNCHANGED <<store, geom, retrievers, calls, returned, served, ncalls, passed>>

\* _filter_relevant_media(answer, media_chunks, top_k)
FilterMediaCall ==
    /\ ret.op = "filter_in"
    /\ ret' = [op |-> "filter", media_chunks |-> ret.media_chunks, replies |-> ret.replies,
               top_k |-> ret.top_k, error |-> "ok",
               out |-> FilterRelevantMedia(ret.media_chunks, ret.replies, ret.top_k)]
    /\ UNCHANGED <<store, geom, retrievers, calls, returned, served, ncalls, passed>>

NextBestEffort == CorrectCall \/ SplitCall \/ EmbedDocumentsCall \/ FilterMediaCall

SpecBestEffort == InitBestEffort /\ [][NextBestEffort]_vars

---------------------------------------------------------------------------
(* ChromaClient: add_documents, contains_file_hash, delete_document *)

\* None where a page number is expected; pages are numbered from 1
NoPage == 0

\* the metadata of a chunk is a mapping from keys to texts; the mapping
\* without keys stands for None and for the empty mapping alike
NoMetadata == <<>>

\* a chunk as the processors hand it to add_documents
Chunk(content, type, page_number, metadata) ==
    [content |-> content, type |-> type, page_number |-> page_number, metadata |-> metadata]

\* the id add_documents gives the i-th chunk of a kind
ChunkId(document_id, kind, i) == Head(document_id) \o "_" \o kind \o "_" \o ToString(i)

\* ChromaClient.contains_file_hash
ContainsFileHash(st, file_hash) == \E i \in 1..Len(st) : st[i].metadata.file_hash = file_hash

\* [content[i:i+max_len] for i in range(0, len(content), max_len)]
RECURSIVE ContentParts(_, _)
ContentParts(content, max_len) ==
    IF Len(content) <= max_len THEN (IF content = <<>> THEN <<>> ELSE <<content>>)
    ELSE <<SubSeq(content, 1, max_len)>>
         \o ContentParts(SubSeq(content, max_len + 1, Len(content)), max_len)

\* ChromaClient.split_large_chunks on one chunk: the chunk itself, or one new
\* DocumentChunk per part, which is valid only with the type "text"
SplitLargeChunk(chunk, max_len) ==
    IF Len(chunk.content) > max_len
    THEN LET parts == ContentParts(chunk.content, max_len)
         IN  [error |-> IF chunk.type = "text" THEN "ok" ELSE "ValidationError",
              chunks |-> [i \in 1..Len(parts) |-> [chunk EXCEPT !.content = parts[i]]]]
    ELSE [error |-> "ok", chunks |-> <<chunk>>]

\* a bug variant of SplitLargeChunks: every chunk is passed through whole
SplitLargeChunksWhole(chunks, max_len) == [error |-> "ok", chunks |-> chunks]

\* ChromaClient.split_large_chunks
RECURSIVE SplitLargeChunks(_, _)
SplitLargeChunks(chunks, max_len) ==
    IF chunks = <<>> THEN [error |-> "ok", chunks |-> <<>>]
    ELSE LET first == SplitLargeChunk(Head(chunks), max_len)
             rest == SplitLargeChunks(Tail(chunks), max_len)
         IN  IF first.error # "ok" THEN [error |-> first.error, chunks |-> <<>>]
             ELSE IF rest.error # "ok" THEN rest
             ELSE [error |-> "ok", chunks |-> first.chunks \o rest.chunks]

\* the metadata add_documents stores for a chunk: doc_id, type and page,
\* updated with the chunk's own metadata, to which file_hash is added when
\* one is given; clean_metadata writes "unknown" for a None value. None stands
\* for a key the stored metadata does not hold.
StoredMetadata(chunk, type, document_id, file_hash) ==
    LET base == [doc_id |-> document_id, type |-> type,
                 page |-> IF chunk.page_number = NoPage THEN UnknownPage ELSE chunk.page_number,
                 caption |-> None, file_hash |-> None]
        raw_metadata == chunk.metadata
        Raw(k) == IF k = "file_hash" /\ Truthy(file_hash) THEN file_hash
                  ELSE IF raw_metadata[k] = None THEN <<"unknown">>
                  ELSE raw_metadata[k]
        Updated(k) == (k = "file_hash" /\ Truthy(file_hash)) \/ k \in DOMAIN raw_metadata
    IN  [k \in DOMAIN base |-> IF Updated(k) THEN Raw(k) ELSE base[k]]

\* collection.add: the entries are appended; an entry whose id the
\* collection already holds is left out
CollectionAdd(st, entries) ==
    LET NewId(e) == e.id \notin IdsOf(st)
    IN  st \o SelectSeq(entries, NewId)

\* the text embedded for an image chunk without uri and filename
ImageText == <<"image">>

\* the lengths the assertion of the text/table branch compares, before the
\* branch is reached
NoLengths == [ids |-> 0, embeddings |-> 0, documents |-> 0, metadatas |-> 0]

\* ChromaClient.add_documents: the outcome, the collection after the call,
\* the number of vectors the embedding function returned, the number of
\* collection.add calls, the lengths the assertion of the text/table
\* branch compares and the ids handed to collection.add
AddDocuments(st, chunks, document_id, file_hash) ==
    IF chunks = <<>>
    THEN [error |-> "ok", store |-> st, embedded |-> 0, writes |-> 0, lengths |-> NoLengths,
          handed |-> {}]
    ELSE LET TextOrTable(c) == c.type \in {"text", "table"}
             Image(c) == c.type = "image"
             split == SplitLargeChunks(SelectSeq(chunks, TextOrTable), ChromaMaxChunkLength)
             text_table_chunks == split.chunks
             image_chunks == SelectSeq(chunks, Image)
             text_entries ==
                 [i \in 1..Len(text_table_chunks) |->
                     [id |-> ChunkId(document_id, "txt", i - 1),
                      document |-> text_table_chunks[i].content,
                      metadata |-> StoredMetadata(text_table_chunks[i], text_table_chunks[i].type,
                                                  document_id, file_hash)]]
             image_entries ==
                 [i \in 1..Len(image_chunks) |->
                     [id |-> ChunkId(document_id, "img", i - 1),
                      document |-> None,
                      metadata |-> StoredMetadata(image_chunks[i], "image",
                                                  document_id, file_hash)]]
             documents == [i \in 1..Len(text_entries) |-> text_entries[i].document]
             embeddings == EmbedDocuments(documents, {})
             image_embeddings == EmbedDocuments([i \in 1..Len(image_entries) |-> ImageText], {})
             lengths == [ids |-> Len(text_entries), embeddings |-> Len(embeddings),
                         documents |-> Len(documents), metadatas |-> Len(text_entries)]
             text_added == CollectionAdd(st, text_entries)
         IN  IF split.error # "ok"
             THEN [error |-> split.error, store |-> st, embedded |-> 0, writes |-> 0,
                   lengths |-> NoLengths, handed |-> {}]
             ELSE IF Len(embeddings) # Len(text_entries)
             THEN [error |-> "AssertionError", store |-> st, embedded |-> Len(embeddings),
                   writes |-> 0, lengths |-> lengths, handed |-> {}]
             ELSE IF Len(image_embeddings) # Len(image_entries)
             THEN [error |-> "AssertionError", store |-> text_added,
                   embedded |-> Len(embeddings) + Len(image_embeddings),
                   writes |-> IF text_entries = <<>> THEN 0 ELSE 1, lengths |-> lengths,
                   handed |-> IdsOf(text_entries)]
             ELSE [error |-> "ok",
                   store |-> CollectionAdd(text_added, image_entries),
                   embedded |-> Len(embeddings) + Len(image_embeddings),
                   writes |-> (IF text_entries = <<>> THEN 0 ELSE 1)
                              + (IF image_entries = <<>> THEN 0 ELSE 1),
                   lengths |-> lengths,
                   handed |-> IdsOf(text_entries) \cup IdsOf(image_entries)]

\* the ids of the first n entries of a document, in store order
FirstIdsOf(st, document_id, n) ==
    LET OfDocument(e) == e.metadata.doc_id = document_id
        found == Take(SelectSeq(st, OfDocument), n)
    IN  {found[i].id : i \in 1..Len(found)}

\* ChromaClient.delete_document when the collection answers its query: the
\* ids of at most n_results entries, each deleted
DeleteFound(st, document_id) ==
    LET chunk_ids == FirstIdsOf(st, document_id, DeleteNResults)
        Left(e) == e.id \notin chunk_ids
    IN  IF chunk_ids = {} THEN [error |-> "ok", store |-> st, out |-> FALSE]
        ELSE [error |-> "ok", store |-> SelectSeq(st, Left), out |-> TRUE]

\* ChromaClient.delete_document: the query it makes gives the collection
\* neither a text nor an embedding and asks it to include "ids"; the
\* collection rejects the query or answers it
DeleteOutcomes(st, document_id) ==
    {[error |-> "ValueError", store |-> st, out |-> FALSE], DeleteFound(st, document_id)}

\* inputs of the store operations
StoreDocIds == {<<"D1">>, <<"D2">>}

FileHashes == {<<"h1">>, <<"h2">>}

TextChunk == Chunk(<<"x">>, "text", 1, NoMetadata)

LargeTextChunk == Chunk(<<"x", "y", "x", "y">>, "text", NoPage, NoMetadata)

TableChunk == Chunk(<<"| a |">>, "table", 2, [caption |-> None])

ImageChunk == Chunk(<<"a cat">>, "image", 2, [caption |-> <<"a cat">>])

\* a chunk whose own metadata mapping holds the key doc_id
KeyedChunk == Chunk(<<"x">>, "text", 1, [doc_id |-> <<"D2">>])

ChunkLists ==
    {<<>>, <<TextChunk>>, <<LargeTextChunk, TableChunk>>, <<TextChunk, ImageChunk>>,
     <<KeyedChunk>>}

\* a document of more chunks than delete_document asks the collection for
LargeDocId == <<"D3">>

LargeCorpus ==
    [i \in 1..(DeleteNResults + 1) |->
        Entry(ChunkId(LargeDocId, "txt", i - 1), LargeDocId, "text", 1, <<"x">>, None)]

\* the entries of a document, in store order
ChunksOf(st, document_id) ==
    LET OfDocument(e) == e.metadata.doc_id = document_id
    IN  SelectSeq(st, OfDocument)

\* the entries of every other document, in store order
ChunksNotOf(st, document_id) ==
    LET Other(e) == e.metadata.doc_id # document_id
    IN  SelectSeq(st, Other)

InitStore ==
    /\ store = EmptyCorpus
    /\ geom = TopicGeom(EmptyCorpus)
    /\ InitCommon

\* the stores two add_documents calls leave, one for each of two documents
AddedCorpora ==
    {AddDocuments(AddDocuments(EmptyCorpus, c1, <<"D1">>, <<"h1">>).store,
                  c2, <<"D2">>, <<"h2">>).store : c1, c2 \in ChunkLists}

InitDelete ==
    /\ store \in AddedCorpora \cup {LargeCorpus}
    /\ geom = TopicGeom(EmptyCorpus)
    /\ InitCommon

\* add_documents(chunks, document_id, file_hash)
AddDocumentsCall ==
    /\ ncalls < MaxStoreOps
    /\ \E chunks \in ChunkLists, document_id \in StoreDocIds, file_hash \in FileHashes \cup {None} :
          \E result \in {AddDocuments(store, chunks, document_id, file_hash)} :
              /\ store' = result.store
              /\ passed' = passed \cup ({file_hash} \ {None})
              /\ ret' = [op |-> "add_documents", chunks |-> chunks, document_id |-> document_id,
                         file_hash |-> file_hash, error |-> result.error,
                         lengths |-> result.lengths,
                         written |-> SubSeq(result.store, Len(store) + 1, Len(result.store)),
                         handed |-> result.handed, held |-> IdsOf(store)]
    /\ ncalls' = ncalls + 1
    /\ UNCHANGED <<geom, retrievers, calls, returned, served>>

\* contains_file_hash(file_hash)
ContainsFileHashCall ==
    /\ ncalls < MaxStoreOps
    /\ \E file_hash \in FileHashes :
          ret' = [op |-> "contains_file_hash", file_hash |-> file_hash, error |-> "ok",
                  out |-> ContainsFileHash(store, file_hash)]
    /\ ncalls' = ncalls + 1
    /\ UNCHANGED <<store, geom, retrievers, calls, returned, served, passed>>

\* delete_document(document_id)
DeleteDocumentCall ==
    /\ ncalls < MaxStoreOps
    /\ \E document_id \in StoreDocIds \cup {LargeDocId} :
       \E result \in DeleteOutcomes(store, document_id) :
          /\ store' = result.store
          /\ ret' = [op |-> "delete_document", document_id |-> document_id,
                     error |-> result.error, out |-> result.out,
                     existed |-> ChunksOf(store, document_id) # <<>>,
                     others |-> ChunksNotOf(store, document_id)]
    /\ ncalls' = ncalls + 1
    /\ UNCHANGED <<geom, retrievers, calls, returned, served, passed>>

\* an HTTPException raised inside a try block whose handler is
\* "except Exception": HTTPException is an Exception, the handler catches it
\* and raises HTTPException(500) in its place
RaisedInsideTry(status_code) == StatusServerError

\* the status the delete request handler answers with, given the outcome of
\* delete_document
DeleteStatus(result) ==
    IF result.error # "ok" THEN StatusServerError
    ELSE IF ~result.out THEN RaisedInsideTry(StatusNotFound)
    ELSE StatusOK

\* the delete request handler (DELETE /delete)
DeleteHandlerCall ==
    /\ ncalls < MaxStoreOps
    /\ \E document_id \in StoreDocIds \cup {LargeDocId} :
       \E result \in DeleteOutcomes(store, document_id) :
          /\ store' = result.store
          /\ ret' = [op |-> "delete_handler", document_id |-> document_id,
                     error |-> result.error, deleted |-> result.out,
                     status |-> DeleteStatus(result)]
    /\ ncalls' = ncalls + 1
    /\ UNCHANGED <<geom, retrievers, calls, returned, served, passed>>

\* the first 16 characters of a file hash, the document id of an upload that
\* names none
HashPrefix(file_hash) == <<Head(file_hash) \o "[:16]">>

\* what validate_file finds
FileChecks == {"ok", "too_large", "unsupported"}

\* the files of upload requests: the hash of the bytes, what validate_file
\* finds and what the processor makes of the file
UploadFiles ==
    {[file_hash |-> h, check |-> "ok", processing |-> "ok", processed |-> p] :
        h \in FileHashes, p \in ChunkLists}
    \cup {[file_hash |-> h, check |-> v, processing |-> "DocumentProcessingError",
           processed |-> <<>>] :
        h \in FileHashes, v \in FileChecks}

\* the answer of upload_file and what it did on the way: the status, the
\* store, the numbers of processor runs, embedded texts and collection.add
\* calls, and the ids handed to collection.add
UploadResult(status, st, nprocess, nembed, nwrite, handed) ==
    [status |-> status, store |-> st, nprocess |-> nprocess, nembed |-> nembed,
     nwrite |-> nwrite, handed |-> handed]

\* upload_file from the processor on: temporary file, processor, add_documents
UploadProcess(st, file, document_id) ==
    LET doc_id == IF Truthy(document_id) THEN document_id ELSE HashPrefix(file.file_hash)
        chunks == file.processed
        added == AddDocuments(st, chunks, doc_id, file.file_hash)
    IN  IF file.processing # "ok"
        THEN UploadResult(StatusUnprocessable, st, 1, 0, 0, {})
        ELSE IF chunks = <<>>
        THEN UploadResult(RaisedInsideTry(StatusUnprocessable), st, 1, 0, 0, {})
        ELSE IF added.error # "ok"
        THEN UploadResult(StatusServerError, added.store, 1, added.embedded, added.writes,
                          added.handed)
        ELSE UploadResult(StatusOK, added.store, 1, added.embedded, added.writes,
                          added.handed)

\* a bug variant of UploadFile: no probe for the file hash
UploadFileUnprobed(st, file, document_id) ==
    IF file.check = "too_large"
    THEN UploadResult(RaisedInsideTry(StatusTooLarge), st, 0, 0, 0, {})
    ELSE IF file.check = "unsupported"
    THEN UploadResult(RaisedInsideTry(StatusUnsupported), st, 0, 0, 0, {})
    ELSE UploadProcess(st, file, document_id)

\* upload_file(file, document_id)
UploadFile(st, file, document_id) ==
    IF file.check = "too_large"
    THEN UploadResult(RaisedInsideTry(StatusTooLarge), st, 0, 0, 0, {})
    ELSE IF file.check = "unsupported"
    THEN UploadResult(RaisedInsideTry(StatusUnsupported), st, 0, 0, 0, {})
    ELSE IF ContainsFileHash(st, file.file_hash)
    THEN UploadResult(RaisedInsideTry(StatusConflict), st, 0, 0, 0, {})
    ELSE UploadProcess(st, file, document_id)

\* the upload request handler (POST /upload)
UploadHandlerCall ==
    /\ ncalls < MaxStoreOps
    /\ \E file \in UploadFiles, document_id \in {None, <<"D1">>} :
          \E result \in {UploadFile(store, file, document_id)} :
              /\ store' = result.store
              /\ passed' = passed \cup (IF result.nprocess > 0 /\ file.processed # <<>>
                                        THEN {file.file_hash} ELSE {})
              /\ ret' = [op |-> "upload", file |-> file, document_id |-> document_id,
                         present |-> ContainsFileHash(store, file.file_hash),
                         changed |-> result.store # store,
                         status |-> result.status, nprocess |-> result.nprocess,
                         nembed |-> result.nembed, nwrite |-> result.nwrite,
                         handed |-> result.handed, held |-> IdsOf(store)]
    /\ ncalls' = ncalls + 1
    /\ UNCHANGED <<geom, retrievers, calls, returned, served>>

NextStore == AddDocumentsCall \/ ContainsFileHashCall \/ UploadHandlerCall

NextDelete == DeleteDocumentCall \/ DeleteHandlerCall

SpecDelete == InitDelete /\ [][NextDelete]_vars

SpecStore == InitStore /\ [][NextStore]_vars

---------------------------------------------------------------------------
(* ChromaClient.split_large_chunks as a function of its arguments *)

\* the chunks split_large_chunks is called with: add_documents hands it the
\* chunks of type text and table
SplitChunks(n) ==
    {Chunk(content, type, 1, NoMetadata) :
        content \in SeqsUpTo({"x", "y"}, n), type \in {"text", "table"}}

InitSplit ==
    /\ store = EmptyCorpus
    /\ geom = TopicGeom(store)
    /\ retrievers = [n \in RetrieverNames |-> NewRetriever(DefaultTopK)]
    /\ calls = [c \in Callers |-> Idle]
    /\ returned = EmptyMap
    /\ served = EmptyMap
    /\ ncalls = 0
    /\ passed = {}
    /\ \E chunks \in SeqsUpTo(SplitChunks(MaxContentLen), 2), max_len \in 1..MaxMaxLen :
          ret = [op |-> "split_in", chunks |-> chunks, max_len |-> max_len]

\* split_large_chunks(chunks, max_len)
SplitChunksCall ==
    /\ ret.op = "split_in"
    /\ ret' = [op |-> "split_large_chunks", chunks |-> ret.chunks, max_len |-> ret.max_len,
               out |-> SplitLargeChunks(ret.chunks, ret.max_len)]
    /\ UNCHANGED <<store, geom, retrievers, calls, returned, served, ncalls, passed>>

NextSplit == SplitChunksCall

SpecSplit == InitSplit /\ [][NextSplit]_vars

---------------------------------------------------------------------------
(* Claims *)

\* C1 (as claimed): a request handled after an earlier request with the same
\* question and the same document id was answered gets that earlier response,
\* and no provider and no store is called for it.
C1_RepeatedRequestServedFromCache ==
    \A c \in Callers :
        (calls[c].pc = "h_done" /\ calls[c].repeat) =>
            /\ calls[c].status = StatusOK
            /\ calls[c].result =
                   served[<<calls[c].request.question, calls[c].request.document_id>>]
            /\ calls[c].provider = 0

\* C2: on one retriever, a call of end_to_end_query made after a response was
\* returned for a question of the same normalized form and the same document
\* returns that response and calls none of correct_query,
\* split_query_if_needed, retrieve and generate_response; a call for a key
\* never stored runs the pipeline and the lookup raises nothing.
C2_HitReturnsEarlierResponse ==
    \A c \in Callers :
        (calls[c].pc = "e2e_done" /\ calls[c].kind = "direct") =>
            IF calls[c].known
            THEN /\ calls[c].error = "ok"
                 /\ calls[c].result =
                        returned[QuestionKey(calls[c].document_id, calls[c].query)]
                 /\ calls[c].ncorrect = 0 /\ calls[c].nsplit = 0
                 /\ calls[c].nretrieve = 0 /\ calls[c].ngenerate = 0
            ELSE /\ calls[c].error \in {"ok", "RetrievalError"}
                 /\ calls[c].ncorrect = 1 /\ calls[c].nsplit = 1
                 /\ calls[c].nretrieve >= 1

\* C2 witness: a question asked with another spelling of an answered question
\* has been answered from the cache, with the sources of the first answer
C2_Witness ==
    \E c \in Callers :
        /\ calls[c].pc = "e2e_done" /\ calls[c].known
        /\ calls[c].query = <<" ", "A">>
        /\ calls[c].result.sources # <<>>
        /\ Contains(calls[c].result.answer, "answer to ")
        /\ ~Contains(calls[c].result.answer, "A")

\* C3 (as claimed): once the generation for a sub-question has failed,
\* end_to_end_query ends with a GenerationError and returns no response.
C3_GenerationFailureIsReported ==
    \A c \in Callers :
        (calls[c].pc = "e2e_done" /\ calls[c].generation_failed) =>
            /\ calls[c].error = "GenerationError"
            /\ calls[c].result = NoResponse

\* C4: once retrieve has failed for a sub-question, end_to_end_query has ended
\* with RetrievalError, has returned no response and has written nothing to
\* the cache, whatever was answered before.
C4_RetrievalFailureAborts ==
    \A c \in Callers :
        calls[c].retrieval_failed =>
            /\ calls[c].pc = "e2e_done"
            /\ calls[c].error = "RetrievalError"
            /\ calls[c].result = NoResponse
            /\ calls[c].wrote = 0
            /\ calls[c].cache_key \notin DOMAIN retrievers[calls[c].retr].cache

\* C4 witness: the retrieval of the second sub-question has failed after the
\* first sub-question was answered
C4_Witness ==
    \E c \in Callers :
        /\ calls[c].retrieval_failed
        /\ calls[c].i = 2
        /\ Len(calls[c].answers) = 1
        /\ calls[c].sources # <<>>

\* C5 (as claimed): the question part of the cache key of a request is the
\* trimmed, lower-cased question of the request, whatever correct_query returned.
C5_KeyFromRawQuestion ==
    \A c \in Callers :
        (calls[c].kind = "handler" /\ calls[c].cache_key # <<>>) =>
            calls[c].cache_key =
                <<calls[c].request.document_id, NormalizeQuestion(calls[c].request.question)>>

\* C6 (as claimed): no step replaces or removes a cache entry of the shared
\* retriever.
C6_CacheEntryImmutable ==
    [][\A k \in DOMAIN retrievers[Shared].cache :
          /\ k \in DOMAIN retrievers'[Shared].cache
          /\ retrievers'[Shared].cache[k] = retrievers[Shared].cache[k]]_vars

C8_ExactlyTopKOfPool ==
    (ret.op = "retrieve" /\ ret.out.error = "ok") =>
        LET results == ret.out.results
            ids == {results[i].id : i \in 1..Len(results)}
            pool == {i \in 1..Len(store) :
                        /\ Matches(store[i], ret.document_id, None)
                        /\ (store[i].document # None \/ store[i].metadata.caption # None)}
            d == geom[ret.query]
        IN  /\ Len(ret.out.chunks) = IF Cardinality(pool) < ret.top_k
                                     THEN Cardinality(pool) ELSE ret.top_k
            /\ ids \subseteq {store[i].id : i \in pool}
            /\ \A i \in pool : store[i].id \notin ids =>
                  \A x \in ids : d[x] <= d[store[i].id]
            /\ \A i, j \in 1..Len(results) : i < j => results[i].score >= results[j].score

\* C8 (amended): retrieve returns at most top_k chunks, in descending score
\* order; they are those of the top_k nearest entries in scope that have a
\* document or a caption. An entry with neither takes one of the top_k places
\* and is dropped, and no farther entry takes its place.
C8_DisplayableAmongTopK ==
    (ret.op = "retrieve" /\ ret.out.error = "ok") =>
        LET results == ret.out.results
            ids == {results[i].id : i \in 1..Len(results)}
            scope == {i \in 1..Len(store) : Matches(store[i], ret.document_id, None)}
            d == geom[ret.query]
            want == IF Cardinality(scope) < ret.top_k THEN Cardinality(scope) ELSE ret.top_k
        IN  /\ Len(ret.out.chunks) <= ret.top_k
            /\ Len(ret.out.chunks) = Cardinality(ids)
            /\ \A i, j \in 1..Len(results) : i < j => results[i].score >= results[j].score
            /\ \E T \in SUBSET scope :
                  /\ Cardinality(T) = want
                  /\ \A i \in T, j \in scope \ T : d[store[i].id] <= d[store[j].id]
                  /\ ids = {store[i].id : i \in {t \in T :
                                store[t].document # None \/ store[t].metadata.caption # None}}

\* C8 witness: two entries asked for, the nearer of the two nearest has neither
\* document nor caption, and one chunk comes back although the scope holds two
\* chunks with a document
C8_Witness ==
    /\ ret.op = "retrieve" /\ ret.out.error = "ok"
    /\ ret.top_k = 2 /\ ret.document_id = <<"A">>
    /\ store = <<PoolA0, PoolAImg, PoolA1>>
    /\ geom[ret.query]["A_img_0"] = 1 /\ geom[ret.query]["A_txt_0"] = 5
    /\ geom[ret.query]["A_txt_1"] = 8
    /\ Len(ret.out.chunks) = 1
    /\ ret.out.chunks[1].content = <<"a0">>

\* C9 (as claimed): a response end_to_end_query composes holds one answer per
\* sub-question joined in sub-question order, and one source per chunk handed
\* to generate_response, in the order they were handed over.
C9_AnswersAndSourcesInOrder ==
    \A c \in Callers :
        (calls[c].pc = "e2e_done" /\ calls[c].kind = "direct"
            /\ calls[c].error = "ok" /\ ~calls[c].hit) =>
            /\ Len(calls[c].answers) = Len(calls[c].sub_questions)
            /\ calls[c].result.answer = Join(AnswerSeparator, calls[c].answers)
            /\ calls[c].result.sources = SourcesOf(calls[c].fed)

\* C10: generate_response called with an empty context raises GenerationError,
\* returns no response and calls no provider.
C10_EmptyContextRaises ==
    (ret.op = "generate_response" /\ ret.context_chunks = <<>>) =>
        /\ ret.out.error = "GenerationError"
        /\ ret.out.response = NoResponse
        /\ ret.out.provider_calls = 0

\* C10 witness: generate_response has been called with an empty context and
\* has raised with the detail of the empty-context check
C10_Witness ==
    /\ ret.op = "generate_response" /\ ret.context_chunks = <<>>
    /\ ret.query = <<"a">>
    /\ ret.out.detail = EmptyContextDetail

\* C11 (as claimed): with some context, generate_response fails with
\* GenerationError when the reply holds, in any letter case, "i don't know",
\* "not enough information" or "cannot determine", and returns every other
\* non-empty reply as the answer.
C11_ThreePhrasesFail ==
    ret.op = "generate_reply" =>
        LET low == \E p \in {"i don't know", "not enough information", "cannot determine"} :
                       Contains(Lower(ret.reply), p)
        IN  /\ low => ret.out.error = "GenerationError"
            /\ (~low /\ ret.reply # <<>>) =>
                  /\ ret.out.error = "ok"
                  /\ ret.out.response.answer = Strip(ret.reply)

\* C11 (amended): with some context, generate_response fails with
\* GenerationError when the reply is empty or holds, in any letter case, one
\* of the four phrases "i don't know", "i'm not sure", "not enough
\* information" and "cannot determine"; every other reply is returned,
\* stripped, as the answer, with one source per context chunk.
C11_FourPhrasesFail ==
    ret.op = "generate_reply" =>
        LET low == \E p \in {"i don't know", "i'm not sure", "not enough information",
                             "cannot determine"} : Contains(Lower(ret.reply), p)
        IN  IF low \/ ret.reply = <<>>
            THEN /\ ret.out.error = "GenerationError"
                 /\ ret.out.response = NoResponse
            ELSE /\ ret.out.error = "ok"
                 /\ ret.out.response.answer = Strip(ret.reply)
                 /\ Len(ret.out.response.sources) = Len(ret.context_chunks)

\* C11 witness: a reply holding "I'M NOT SURE", and none of the three phrases
\* of the claim, has made generate_response fail
C11_Witness ==
    /\ ret.op = "generate_reply"
    /\ ret.reply = <<"Well, ", "I'M NOT SURE">>
    /\ ret.context_chunks # <<>>
    /\ ret.out.error = "GenerationError"

\* C12 (as claimed): format_response returns a response whose kind is table
\* when the output has a fenced markdown block, else image when it has an
\* image marker, else text.
C12_ClassifiedTableImageText ==
    ret.op = "format_response" =>
        LET t == ret.text
            block == \E i, j \in 1..Len(t) :
                        /\ t[i] = TableFence /\ i + 1 < j /\ j < Len(t)
                        /\ t[i + 1] = "\n" /\ t[j] = "\n" /\ IsFence(t[j + 1])
            marker == \E i, j \in 1..Len(t) :
                        /\ t[i] = ImageMarker /\ i < j /\ t[j] = "]"
                        /\ \A k \in (i + 1)..(j - 1) : t[k] # "\n"
        IN  /\ ret.out.error = "ok"
            /\ ret.out.response.answer = t
            /\ ret.out.response.formatted_response.type =
                   IF block THEN "table" ELSE IF marker THEN "image" ELSE "text"

\* C13: a provider failure in a best-effort step does not raise from the
\* step: correct_query returns the question it was given; embed_documents
\* returns one vector per part, in order, with 768 zeros for each part whose
\* provider call failed and the provider's vector for every other part;
\* _filter_relevant_media returns, of the chunks it was given, the first top_k
\* the provider said yes to, a chunk whose call failed left out and the chunks
\* after it still asked about.
C13_BestEffortStepsNeverRaise ==
    /\ ret.op \in {"correct_query", "embed_documents", "filter"} => ret.error = "ok"
    /\ (ret.op = "correct_query" /\ ret.reply = ProviderRaised) => ret.out = ret.query
    /\ ret.op = "embed_documents" =>
          LET parts == AllParts(ret.texts)
          IN  /\ Len(ret.out) = Len(parts)
              /\ \A i \in 1..Len(parts) :
                    IF i \in ret.failed
                    THEN Len(ret.out[i]) = 768 /\ \A j \in 1..768 : ret.out[i][j] = "0.0"
                    ELSE ret.out[i] = EmbedQuery(parts[i])
    /\ ret.op = "filter" =>
          LET yes == {i \in 1..Len(ret.media_chunks) :
                         /\ ret.replies[i] # ProviderRaised
                         /\ \E j \in 1..Len(ret.replies[i]) :
                               /\ ret.replies[i][j] \in {"YES", "yes"}
                               /\ \A k \in 1..(j - 1) : IsSpace(ret.replies[i][k])}
              n == IF Cardinality(yes) < ret.top_k THEN Cardinality(yes) ELSE ret.top_k
          IN  /\ Len(ret.out) = n
              /\ \E pos \in [1..n -> yes] :
                    /\ \A a, b \in 1..n : a < b => pos[a] < pos[b]
                    /\ \A a \in 1..n : ret.out[a] = ret.media_chunks[pos[a]]
                    /\ \A i \in yes : i < (IF n = 0 THEN 0 ELSE pos[n]) =>
                          \E a \in 1..n : pos[a] = i

\* C13 witness: the second provider call of embed_documents has failed, the
\* sixth, in the second batch, has succeeded, and six vectors came back
C13_Witness ==
    /\ ret.op = "embed_documents"
    /\ ret.failed = {2}
    /\ Len(ret.out) = 6
    /\ ret.out[2] = FallbackEmbedding
    /\ ret.out[6] = EmbedQuery(<<"x">>)

\* C14 (as claimed): split_query_if_needed does not raise and returns a
\* non-empty sequence whose members are all non-blank; it returns exactly
\* <<question>> when the provider fails or its reply has no non-blank line.
C14_SubQuestionsNeverBlank ==
    ret.op = "split" =>
        /\ ret.error = "ok"
        /\ ret.out # <<>>
        /\ \A i \in 1..Len(ret.out) : \E j \in 1..Len(ret.out[i]) : ~IsSpace(ret.out[i][j])
        /\ (ret.reply = ProviderRaised \/ \A j \in 1..Len(ret.reply) : IsSpace(ret.reply[j]))
              => ret.out = <<ret.query>>

\* C14 (amended): split_query_if_needed does not raise and returns a non-empty
\* sequence. When the provider replies with at least one non-blank line, the
\* result is the non-blank lines of the reply, stripped, in the order of the
\* lines; when the provider fails or its reply has no non-blank line, it is
\* exactly <<question>>, whose one member is blank when the question is blank.
C14_LinesOrQuestion ==
    ret.op = "split" =>
        LET NonSpace(a) == ~IsSpace(a)
            Flat(parts) == Join(<<>>, parts)
        IN  /\ ret.error = "ok"
            /\ ret.out # <<>>
            /\ IF ret.reply = ProviderRaised \/ \A j \in 1..Len(ret.reply) : IsSpace(ret.reply[j])
               THEN ret.out = <<ret.query>>
               ELSE /\ \A i \in 1..Len(ret.out) :
                          /\ ret.out[i] # <<>>
                          /\ ~IsSpace(Head(ret.out[i]))
                          /\ ~IsSpace(ret.out[i][Len(ret.out[i])])
                          /\ ~Contains(ret.out[i], "\n")
                    /\ SelectSeq(Flat(ret.out), NonSpace) = SelectSeq(ret.reply, NonSpace)
                    /\ Len(ret.out) =
                          Cardinality({j \in 1..Len(ret.reply) :
                              /\ ~IsSpace(ret.reply[j])
                              /\ \A k \in 1..(j - 1) :
                                    ~IsSpace(ret.reply[k]) =>
                                        \E n \in (k + 1)..(j - 1) : ret.reply[n] = "\n"})

\* C14 witness: the provider has failed on a blank question, and the one
\* sub-question returned is that blank question
C14_Witness ==
    /\ ret.op = "split"
    /\ ret.reply = ProviderRaised
    /\ ret.query = <<" ">>
    /\ ret.out = <<<<" ">>>>

\* C15: contains_file_hash(h) is true right after add_documents was called
\* with at least one chunk and file_hash = h, and false for every hash that
\* was never passed to add_documents.
C15_HashKnownAfterAdd ==
    /\ (ret.op = "add_documents" /\ ret.error = "ok" /\ ret.chunks # <<>> /\ ret.file_hash # None)
          => ContainsFileHash(store, ret.file_hash)
    /\ \A h \in FileHashes \ passed : ~ContainsFileHash(store, h)

\* C16: after delete_document(d) returns, no chunk with doc_id d remains in
\* the store, however many chunks d had; it returns true exactly when at
\* least one chunk with doc_id d existed before the call, and the chunks of
\* every other document are left unchanged.
C16_DeleteRemovesEveryChunk ==
    (ret.op = "delete_document" /\ ret.error = "ok")
        => /\ ChunksOf(store, ret.document_id) = <<>>
           /\ ret.out = ret.existed
           /\ ChunksNotOf(store, ret.document_id) = ret.others

\* C17: when delete_document returns false for a document id, the delete
\* request handler reports not found (status 404) and not a failure
\* (status 500).
C17_NotFoundReported ==
    (ret.op = "delete_handler" /\ ret.error = "ok" /\ ~ret.deleted)
        => ret.status = StatusNotFound

\* exactly one of the two is given
ExactlyOneGiven(query_text, query_embedding) == Truthy(query_text) # Truthy(query_embedding)

\* C18: ChromaClient.query requires exactly one of query_text and
\* query_embedding: a call with neither, and a call with both, fails with an
\* invalid-argument error before the store is queried; every call the
\* retriever makes to query satisfies this requirement.
C18_ExactlyOneOfTextAndEmbedding ==
    /\ (ret.op = "query" /\ ~ExactlyOneGiven(ret.query_text, ret.query_embedding))
          => (ret.out.error = "ValueError" /\ ~ret.out.queried)
    /\ ret.op = "retrieve"
          => \A i \in 1..Len(ret.out.query_args) :
                ExactlyOneGiven(ret.out.query_args[i].query_text,
                                ret.out.query_args[i].query_embedding)

\* missing or blank
BlankOrMissing(text) == ~Truthy(text) \/ ~Truthy(Strip(text))

\* C19: a query request whose question is missing or blank, or whose document
\* id is missing or blank, is rejected as an invalid request (status 400)
\* before any correction, retrieval, generation, embedding or store call is
\* made.
C19_InvalidRequestRejected ==
    \A c \in Callers :
        (/\ calls[c].kind = "handler"
         /\ calls[c].pc = "h_done"
         /\ (BlankOrMissing(calls[c].request.question)
               \/ BlankOrMissing(calls[c].request.document_id)))
        => /\ calls[c].status = StatusBadRequest
           /\ calls[c].ncorrect = 0
           /\ calls[c].nsplit = 0
           /\ calls[c].nretrieve = 0
           /\ calls[c].ngenerate = 0
           /\ calls[c].provider = 0

\* C20: an upload whose file hash is already present in the store is
\* rejected without running the document processor, without any embedding
\* call and without any write to the store.
C20_DuplicateRejectedBeforeProcessing ==
    (ret.op = "upload" /\ ret.present)
        => /\ ret.status # StatusOK
           /\ ret.nprocess = 0
           /\ ret.nembed = 0
           /\ ret.nwrite = 0
           /\ ~ret.changed

\* C20 witness: a valid file whose hash an earlier upload stored is uploaded
\* again and rejected.
C20_Witness ==
    /\ ret.op = "upload"
    /\ ret.present
    /\ ret.file.check = "ok"
    /\ ret.file.file_hash \in passed
    /\ ret.file.processed # <<>>
    /\ ret.status = StatusServerError

\* the contents of a list of chunks, concatenated in order
RECURSIVE JoinContents(_)
JoinContents(chunks) ==
    IF chunks = <<>> THEN <<>> ELSE Head(chunks).content \o JoinContents(Tail(chunks))

\* the number of parts a content of length n is cut into
PartCount(n, max_len) == IF n <= max_len THEN 1 ELSE (n + max_len - 1) \div max_len

RECURSIVE TotalParts(_, _)
TotalParts(chunks, max_len) ==
    IF chunks = <<>> THEN 0
    ELSE PartCount(Len(Head(chunks).content), max_len) + TotalParts(Tail(chunks), max_len)

C22_OneVectorPerText ==
    ret.op = "embed_documents" =>
        /\ Len(ret.out) = Len(ret.texts)
        /\ \A i \in 1..Len(ret.texts) :
              ret.out[i] = (IF i \in ret.failed THEN FallbackEmbedding
                            ELSE EmbedQuery(ret.texts[i]))

\* the provider replied, and the first atom of the reply that is not white
\* space reads YES in upper case at its start
SaidYes(reply) ==
    /\ reply # ProviderRaised
    /\ \E j \in 1..Len(reply) :
          /\ reply[j] \in {"YES", "yes", "Yes, it does", "YESTERDAY"}
          /\ \A k \in 1..(j - 1) : IsSpace(reply[k])

\* the positions of the chunks the provider said YES to
YesPositions(replies) == {i \in 1..Len(replies) : SaidYes(replies[i])}

\* the k-th of a set of positions, in ascending order
NthOf(positions, k) == CHOOSE i \in positions : Cardinality({j \in positions : j <= i}) = k

\* C23: _filter_relevant_media returns a subsequence of its input in original
\* order, of length at most top_k, made of the first top_k chunks for which
\* the provider's reply, trimmed and upper-cased, starts with "YES"; a chunk
\* whose reply does not start with YES, or whose provider call failed, is
\* never returned.
C23_FirstTopKYesChunks ==
    ret.op = "filter" =>
        LET yes == YesPositions(ret.replies)
        IN  /\ Len(ret.out) <= ret.top_k
            /\ Len(ret.out) = (IF Cardinality(yes) < ret.top_k THEN Cardinality(yes)
                               ELSE ret.top_k)
            /\ \A a \in 1..Len(ret.out) : ret.out[a] = ret.media_chunks[NthOf(yes, a)]

\* C23 witness: three chunks, the provider says NO, then yes with white
\* space around it, then YES, and with top_k = 1 the second chunk alone is
\* returned
C23_Witness ==
    /\ ret.op = "filter"
    /\ Len(ret.media_chunks) = 3
    /\ ret.media_chunks[2] # ret.media_chunks[3]
    /\ ret.replies = <<(<<"NO">>), (<<" ", "yes", "\n">>), (<<"YES">>)>>
    /\ ret.top_k = 1
    /\ ret.out = <<ret.media_chunks[2]>>

\* C24: ChromaClient.query returns the store's results in the store's order
\* with score = 1 - distance; a result whose document is missing takes its
\* metadata caption as content when a caption exists, and is dropped without
\* error when there is none, so every returned entry has non-null content.
C24_StoreOrderCaptionForMissing ==
    (ret.op = "query" /\ ret.out.error = "ok") =>
        LET raw == CollectionQuery(store, geom[ret.query], ret.document_id, None, ret.top_k)
            kept == {i \in 1..Len(raw) :
                        raw[i].entry.document # None \/ raw[i].entry.metadata.caption # None}
            results == ret.out.results
        IN  /\ Len(results) = Cardinality(kept)
            /\ \A a \in 1..Len(results) :
                  LET r == raw[NthOf(kept, a)]
                  IN  /\ results[a].id = r.entry.id
                      /\ results[a].score = One - r.dist
                      /\ results[a].metadata = r.entry.metadata
                      /\ results[a].document # None
                      /\ results[a].document =
                            (IF r.entry.document # None THEN r.entry.document
                             ELSE r.entry.metadata.caption)

\* C24 witness: the query returned, after an entry with a document, an entry
\* without document whose content is its caption, with a lower score
C24_Witness ==
    /\ ret.op = "query"
    /\ ret.out.error = "ok"
    /\ Len(ret.out.results) >= 2
    /\ ret.out.results[1].document # ret.out.results[1].metadata.caption
    /\ ret.out.results[2].document = ret.out.results[2].metadata.caption
    /\ ret.out.results[2].score < ret.out.results[1].score

\* C25: retrieve never returns a chunk whose content is empty or only
\* whitespace: such chunks are filtered out of the result, which is not an
\* error.
C25_NoBlankChunkRetrieved ==
    (ret.op = "retrieve" /\ ret.out.error = "ok") =>
        \A i \in 1..Len(ret.out.chunks) : Truthy(Strip(ret.out.chunks[i].content))

\* C26: the length assertion in add_documents for text/table chunks never
\* fails: after split_large_chunks the numbers of ids, documents, metadatas
\* and embeddings returned by embed_documents are all equal, because no part
\* is split a second time by embed_documents.
C26_LengthAssertionHolds ==
    ret.op = "add_documents" =>
        /\ ret.error # "AssertionError"
        /\ ret.lengths.ids = ret.lengths.embeddings
        /\ ret.lengths.ids = ret.lengths.documents
        /\ ret.lengths.ids = ret.lengths.metadatas

\* C26 witness: a text chunk longer than MAX_CHUNK_LENGTH was split in two
\* parts and added with a table chunk: three ids, three embeddings
C26_Witness ==
    /\ ret.op = "add_documents"
    /\ ret.error = "ok"
    /\ ret.chunks = <<LargeTextChunk, TableChunk>>
    /\ ret.lengths.ids = 3
    /\ ret.lengths.embeddings = 3

\* the type and the page of a stored entry are those of the chunk
OwnTypeAndPage(e, chunk) ==
    /\ e.metadata.type = chunk.type
    /\ e.metadata.page = (IF chunk.page_number = NoPage THEN UnknownPage
                          ELSE chunk.page_number)

\* C27: every chunk written by add_documents(chunks, document_id, file_hash)
\* carries metadata doc_id equal to the document_id argument, file_hash equal
\* to the file_hash argument (when given), and type and page equal to the
\* chunk's own type and page, whatever keys the chunk's own metadata mapping
\* holds.
C27_MetadataFromArguments ==
    (ret.op = "add_documents" /\ ret.error = "ok") =>
        LET TextOrTable(c) == c.type \in {"text", "table"}
            Image(c) == c.type = "image"
            text_table_chunks ==
                SplitLargeChunks(SelectSeq(ret.chunks, TextOrTable), ChromaMaxChunkLength).chunks
            image_chunks == SelectSeq(ret.chunks, Image)
        IN  \A k \in 1..Len(ret.written) :
               LET e == ret.written[k]
               IN  /\ e.metadata.doc_id = ret.document_id
                   /\ ret.file_hash # None => e.metadata.file_hash = ret.file_hash
                   /\ \A i \in 1..Len(text_table_chunks) :
                         e.id = ChunkId(ret.document_id, "txt", i - 1)
                            => OwnTypeAndPage(e, text_table_chunks[i])
                   /\ \A i \in 1..Len(image_chunks) :
                         e.id = ChunkId(ret.document_id, "img", i - 1)
                            => OwnTypeAndPage(e, image_chunks[i])

\* C28: after any sequence of uploads, chunk ids in the store are unique: no
\* add_documents call writes an id that is already in the store, also when
\* two different files are uploaded with the same explicit document_id.
C28_NoIdWrittenTwice ==
    /\ \A i, j \in 1..Len(store) : store[i].id = store[j].id => i = j
    /\ ret.op = "upload" => ret.handed \cap ret.held = {}

\* C29: the two classifiers agree: for every answer text,
\* _detect_special_content reports type table exactly when format_response
\* reports table, type image exactly when format_response reports image, and
\* nothing exactly when format_response reports text.
C29_ClassifiersAgree ==
    ret.op = "format_response" =>
        /\ ret.out.error = "ok"
        /\ (ret.detected.type = "table")
              <=> (ret.out.response.formatted_response.type = "table")
        /\ (ret.detected.type = "image")
              <=> (ret.out.response.formatted_response.type = "image")
        /\ (ret.detected = NoFormat)
              <=> (ret.out.response.formatted_response.type = "text")

\* the status upload_file raises on purpose for a request, if any
PurposeStatus(r) ==
    IF r.file.check = "too_large" THEN StatusTooLarge
    ELSE IF r.file.check = "unsupported" THEN StatusUnsupported
    ELSE IF r.present THEN StatusConflict
    ELSE IF r.file.processing = "ok" /\ r.file.processed = <<>> THEN StatusUnprocessable
    ELSE StatusOK

\* C30: every HTTP error the upload handler raises on purpose reaches the
\* caller with its own status: 409 for a duplicate file hash, 413 for a file
\* over the size limit, 415 for an unsupported extension and 422 for a
\* document with no valid chunks; none of them is turned into status 500.
C30_PurposeStatusReachesCaller ==
    (ret.op = "upload" /\ PurposeStatus(ret) # StatusOK) => ret.status = PurposeStatus(ret)

====
